---- MODULE Spec2Model ----
(***************************************************************************)
(* A model of the rig-prediction pipeline of rignetconnect.py:             *)
(* normalize_obj, create_single_data, predict_joints, predict_skeleton,    *)
(* calc_geodesic_matrix_2, predict_skinning and predict_rig.               *)
(*                                                                         *)
(* Real numbers are modelled exactly: coordinates and weights are integers *)
(* in a fixed unit, quotients are fractions <<numerator, denominator>>.    *)
(* A fraction with denominator 0 is a non-finite float: <<n, 0>> with      *)
(* n # 0 is +-inf and <<0, 0>> is NaN, which is what numpy's float64       *)
(* division and multiplication produce.                                    *)
(***************************************************************************)
EXTENDS Integers, Sequences, FiniteSets, TLC

VARIABLES
    \* ---- normalize_obj and its inverse
    mesh_v,          \* the vertex array handed to normalize_obj (V x 3 integers)
    npc,             \* "off" | "raw" | "normalized" | "restored"
    nres,            \* what normalize_obj returned: [verts, pivot, scale]
    nback,           \* the normalized vertices mapped back by the inverse transform
    \* ---- predict_rig: runs, the module global, files and device memory
    rpc,             \* per run: the stage reached ("voxelizing": inside line 144)
    MESH_NORMALIZED, \* the module global: whose normalized mesh it holds (0: None)
    mesh_cast,       \* per run: whose mesh calc_geodesic_matrix_2 took (0: none yet)
    files,           \* the files on disk: <<run, kind>>
    cache_cleared,   \* per run: empty_cache() ran in the run, or after it ended
    rerr,            \* per run: the exception that ended the run ("none")
    tool,            \* per run: what the voxelizer did
    log,             \* per run: the steps of predict_rig in the order they ran
    \* ---- calc_geodesic_matrix_2
    geo_in,          \* its inputs: [use_sampling, vis, dist, sg, order, pos, extra]
    gpc,             \* "off" | "input" | "done"
    geo_out,         \* [vis (after the far-point filter), mat, ret (returned)]
    \* ---- predict_skinning
    skin_in,         \* its inputs: [nb, geo_dist, net, tpl]
    spc,             \* "off" | "input" | "done"
    skin_out,        \* [nn, mask, scattered, filtered, final]
    \* ---- predict_joints
    joint_in,        \* its inputs: [cand, bandwidth, threshold]
    jpc,             \* "off" | "input" | "done" | "failed"
    joint_out,       \* [kept, dense, joints, err]
    \* ---- predict_skeleton
    skel_in,         \* its inputs: [joints, root_id, connect_prob, outside]
    kpc,             \* "off" | "input" | "built" | "failed"
    skel_out,        \* [parent, root, bones, err]
    \* ---- predict_joints, the pair features (198-220)
    pair_in,         \* its inputs: [joints, samples]
    ppc,             \* "off" | "input" | "done"
    pair_out         \* [pairs, pair_attr]

normVars == <<mesh_v, npc, nres, nback>>

rigVars == <<rpc, MESH_NORMALIZED, mesh_cast, files, cache_cleared, rerr, tool, log>>

geoVars == <<geo_in, gpc, geo_out>>

skinVars == <<skin_in, spc, skin_out>>

jointVars == <<joint_in, jpc, joint_out>>

skelVars == <<skel_in, kpc, skel_out>>

pairVars == <<pair_in, ppc, pair_out>>

vars == <<mesh_v, npc, nres, nback,
          rpc, MESH_NORMALIZED, mesh_cast, files, cache_cleared, rerr, tool, log,
          geo_in, gpc, geo_out,
          skin_in, spc, skin_out,
          joint_in, jpc, joint_out,
          skel_in, kpc, skel_out,
          pair_in, ppc, pair_out>>

\* What the actions of one part of the model leave alone: the other parts.
exceptNorm == <<rigVars, geoVars, skinVars, jointVars, skelVars, pairVars>>

exceptRig == <<normVars, geoVars, skinVars, jointVars, skelVars, pairVars>>

exceptGeo == <<normVars, rigVars, skinVars, jointVars, skelVars, pairVars>>

exceptSkin == <<normVars, rigVars, geoVars, jointVars, skelVars, pairVars>>

exceptJoint == <<normVars, rigVars, geoVars, skinVars, skelVars, pairVars>>

exceptSkel == <<normVars, rigVars, geoVars, skinVars, jointVars, pairVars>>

exceptPair == <<normVars, rigVars, geoVars, skinVars, jointVars, skelVars>>

(***************************************************************************)
(* Generic helpers.                                                        *)
(***************************************************************************)
Max2(a, b) == IF a >= b THEN a ELSE b

SetMax(S) == CHOOSE x \in S : \A y \in S : y <= x

SetMin(S) == CHOOSE x \in S : \A y \in S : x <= y

Abs(x) == IF x < 0 THEN 0 - x ELSE x

RECURSIVE SumTo(_, _)
SumTo(s, n) == IF n = 0 THEN 0 ELSE s[n] + SumTo(s, n - 1)

SumSeq(s) == SumTo(s, Len(s))

\* Sequences over S of length lo..hi.
SeqsOf(S, lo, hi) == UNION { [1..n -> S] : n \in lo..hi }

(***************************************************************************)
(* Fractions: float64 arithmetic modelled exactly.                         *)
(***************************************************************************)
Frac(n, d) == IF d < 0 THEN <<0 - n, 0 - d>> ELSE <<n, d>>

FInt(n) == <<n, 1>>

FNeg(a) == <<0 - a[1], a[2]>>

FSub(a, b) == Frac(a[1] * b[2] - b[1] * a[2], a[2] * b[2])

FAdd(a, b) == Frac(a[1] * b[2] + b[1] * a[2], a[2] * b[2])

FMul(a, b) == Frac(a[1] * b[1], a[2] * b[2])

FDiv(a, b) == Frac(a[1] * b[2], a[2] * b[1])

FFinite(a) == a[2] # 0

\* Equality of two finite values; inf and NaN equal nothing.
FEq(a, b) == FFinite(a) /\ FFinite(b) /\ a[1] * b[2] = b[1] * a[2]

(***************************************************************************)
(* Bounds of the normalization model.                                      *)
(***************************************************************************)
MaxCoord == 2

MaxVerts == 2

Coords == 0..MaxCoord

Vertices == [1..3 -> Coords]

(***************************************************************************)
(* normalize_obj (rignetconnect.py 44-55).                                 *)
(***************************************************************************)
Column(mv, k) == { mv[i][k] : i \in 1..Len(mv) }

\* dims = [max - min of every axis]
Dims(mv) == [k \in 1..3 |-> SetMax(Column(mv, k)) - SetMin(Column(mv, k))]

MaxDim(mv) == SetMax({ Dims(mv)[k] : k \in 1..3 })

\* scale = 1.0 / max(dims): numpy float64 division, inf when max(dims) is 0.
Scale(mv) == FDiv(FInt(1), FInt(MaxDim(mv)))

\* pivot = [(min x + max x) / 2, min y, (min z + max z) / 2]
Pivot(mv) ==
    <<Frac(SetMin(Column(mv, 1)) + SetMax(Column(mv, 1)), 2),
      FInt(SetMin(Column(mv, 2))),
      Frac(SetMin(Column(mv, 3)) + SetMax(Column(mv, 3)), 2)>>

\* A plausible slip: the scale applied before the pivot is subtracted.
NormalizeCoordScaledFirst(x, p, s) == FSub(FMul(FInt(x), s), p)

\* mesh_v[:, k] -= pivot[k]; mesh_v *= scale
NormalizeCoord(x, p, s) == FMul(FSub(FInt(x), p), s)

normalize_obj(mv) ==
    [verts |-> [i \in 1..Len(mv) |->
                   [k \in 1..3 |-> NormalizeCoord(mv[i][k], Pivot(mv)[k], Scale(mv))]],
     pivot |-> Pivot(mv),
     scale |-> Scale(mv)]

\* Info.normalize(scale, trans): pos / scale - trans, per coordinate.
InfoNormalize(pos, scale, trans) ==
    [k \in 1..3 |-> FSub(FDiv(pos[k], scale), trans[k])]

\* predict_rig 504: pred_rig.normalize(scale_normalize, -translation_normalize)
Denormalize(pos, res) ==
    InfoNormalize(pos, res.scale, [k \in 1..3 |-> FNeg(res.pivot[k])])


\* create_single_data 102: normalize_obj(mesh_v). It raises nothing.
NormalizeObj ==
    /\ npc = "raw"
    /\ nres' = normalize_obj(mesh_v)
    /\ npc' = "normalized"
    /\ UNCHANGED <<mesh_v, nback, exceptNorm>>

\* The inverse transform of predict_rig 504, applied to the normalized vertices.
Restore ==
    /\ npc = "normalized"
    /\ nback' = [i \in 1..Len(mesh_v) |-> Denormalize(nres.verts[i], nres)]
    /\ npc' = "restored"
    /\ UNCHANGED <<mesh_v, nres, exceptNorm>>

NormNext == NormalizeObj \/ Restore

Degenerate(mv) == MaxDim(mv) = 0

\* C4: normalization is invertible: for a mesh of non-zero extent, the inverse
\* transform of predict_rig applied to normalize_obj's output gives back every
\* vertex coordinate.
C4_NormalizationInvertible ==
    (npc = "restored" /\ ~Degenerate(mesh_v)) =>
        \A i \in 1..Len(mesh_v) : \A k \in 1..3 :
            FEq(nback[i][k], FInt(mesh_v[i][k]))

\* A restored mesh with a non-zero pivot and a scale other than 1.
C4_Witness ==
    /\ npc = "restored"
    /\ ~Degenerate(mesh_v)
    /\ MaxDim(mesh_v) > 1
    /\ \E k \in 1..3 : nres.pivot[k][1] # 0
    /\ \E i \in 1..Len(mesh_v) : \E k \in 1..3 : ~FEq(nres.verts[i][k], FInt(mesh_v[i][k]))

\* C9: normalize_obj fails with a DegenerateMeshError on a mesh of zero extent,
\* it does not return a non-finite scale.
C9_DegenerateMeshRejected ==
    (npc # "raw" /\ Degenerate(mesh_v)) =>
        (npc = "DegenerateMeshError" /\ nres = <<>>)


(***************************************************************************)
(* predict_rig (rignetconnect.py 450-516) and the stages it calls, seen as *)
(* resources: the module global MESH_NORMALIZED, the temporary files and   *)
(* the device cache.  Two runs are interleaved at stage boundaries.        *)
(***************************************************************************)
NumRuns == 2

Runs == 1..NumRuns

\* The mesh exports written by o3d.io.write_triangle_mesh (130, 331, 341).
MeshExports == {"normalized_obj", "simplified_obj", "full_obj"}

FilesOf(r, kinds) == { f \in files : f[1] = r /\ f[2] \in kinds }

Ran(r, step) == \E i \in 1..Len(log[r]) : log[r][i] = step

\* A stage raised: predict_rig has no handler, the exception leaves it.
Raise(r, e) ==
    /\ rpc' = [rpc EXCEPT ![r] = "failed"]
    /\ rerr' = [rerr EXCEPT ![r] = e]

\* torch.cuda.empty_cache() (141 through clear(), 516, 520) called by run r, or
\* by nobody's run (r = 0): the one device cache of the process is emptied, of
\* what the caller holds and of what every run that has ended left.
empty_cache(r) ==
    [q \in Runs |-> cache_cleared[q] \/ q = r \/ rpc[q] \in {"done", "failed"}]

\* predict_rig 459-487: the four networks are built and their weights loaded.
LoadNetworks(r) ==
    /\ rpc[r] = "start"
    /\ log' = [log EXCEPT ![r] = Append(@, "load")]
    /\ \/ /\ rpc' = [rpc EXCEPT ![r] = "loaded"]
          /\ UNCHANGED rerr
       \/ Raise(r, "StageError")
    /\ UNCHANGED <<MESH_NORMALIZED, mesh_cast, files, cache_cleared, tool, exceptRig>>

\* create_single_data 58-142, called at predict_rig 489: up to the call of the
\* voxelizer.
\*   66-104   the mesh is triangulated and normalized: a failure here leaves
\*            the global as it was
\*   106      the global is bound to this run's normalized mesh
\*   109-130  edges, surface geodesics, the export of the normalized mesh to a
\*            temporary .obj: a failure leaves the global bound and no file
\*   133-137  the addon preferences are read for the path of binvox: a
\*            failure leaves the global bound and the exported .obj
\*   139-142  binvox missing: unlink, clear(), raise FileNotFoundError
create_single_data_begin(r, outcome) ==
    /\ rpc[r] = "loaded"
    /\ log' = [log EXCEPT ![r] = Append(@, "create")]
    /\ CASE outcome = "raises_unbound" ->
              /\ Raise(r, "StageError")
              /\ UNCHANGED <<MESH_NORMALIZED, files, cache_cleared, tool>>
         [] outcome = "raises_bound" ->
              /\ MESH_NORMALIZED' = r
              /\ Raise(r, "StageError")
              /\ UNCHANGED <<files, cache_cleared, tool>>
         [] outcome = "raises_exported" ->
              /\ MESH_NORMALIZED' = r
              /\ files' = files \cup {<<r, "normalized_obj">>}
              /\ Raise(r, "StageError")
              /\ UNCHANGED <<cache_cleared, tool>>
         [] outcome = "missing" ->
              /\ MESH_NORMALIZED' = r
              /\ tool' = [tool EXCEPT ![r] = "missing"]
              /\ files' = files
              /\ cache_cleared' = empty_cache(r)
              /\ Raise(r, "FileNotFoundError")
         [] OTHER ->
              \* "calls": subprocess.call (144) is entered
              /\ MESH_NORMALIZED' = r
              /\ files' = files \cup {<<r, "normalized_obj">>}
              /\ rpc' = [rpc EXCEPT ![r] = "voxelizing"]
              /\ UNCHANGED <<cache_cleared, rerr, tool>>
    /\ UNCHANGED <<mesh_cast, exceptRig>>

CreateSingleDataBegin(r) ==
    \E outcome \in {"raises_unbound", "raises_bound", "raises_exported", "missing",
                    "calls"} :
        create_single_data_begin(r, outcome)

\* create_single_data 144-151: the voxelizer has ended.
\*   144      subprocess.call: PermissionError when binvox cannot be executed;
\*            the exit code is not looked at
\*   145-146  the .binvox is opened and parsed: FileNotFoundError when it was
\*            not written, the parser's error when it cannot be read
\*   148      the exported .obj is unlinked; the .binvox is never removed
create_single_data_end(r, voxelizer) ==
    /\ rpc[r] = "voxelizing"
    /\ tool' = [tool EXCEPT ![r] = voxelizer]
    /\ CASE voxelizer = "not_executable" ->
              /\ files' = files
              /\ Raise(r, "PermissionError")
         [] voxelizer = "no_output" ->
              /\ files' = files
              /\ Raise(r, "FileNotFoundError")
         [] voxelizer = "unreadable_output" ->
              /\ files' = files \cup {<<r, "binvox">>}
              /\ Raise(r, "ValueError")
         [] OTHER ->
              \* "ok" or "nonzero_exit": the output file is there and is read
              /\ files' = (files \ {<<r, "normalized_obj">>}) \cup {<<r, "binvox">>}
              /\ rpc' = [rpc EXCEPT ![r] = "data"]
              /\ UNCHANGED rerr
    /\ UNCHANGED <<MESH_NORMALIZED, mesh_cast, cache_cleared, log, exceptRig>>

CreateSingleDataEnd(r) ==
    \E voxelizer \in {"ok", "nonzero_exit", "not_executable", "no_output",
                      "unreadable_output"} :
        create_single_data_end(r, voxelizer)

\* A stage that touches no file and no global (predict_joints 493, predict_skeleton
\* 497): it returns or the network or the geometry code under it raises.
PureStage(r, from, to, name) ==
    /\ rpc[r] = from
    /\ log' = [log EXCEPT ![r] = Append(@, name)]
    /\ \/ /\ rpc' = [rpc EXCEPT ![r] = to]
          /\ UNCHANGED rerr
       \/ Raise(r, "StageError")
    /\ UNCHANGED <<MESH_NORMALIZED, mesh_cast, files, cache_cleared, tool, exceptRig>>

PredictJointsStage(r) == PureStage(r, "data", "joints", "joints")

\* A plausible slip: line 498 live, the skeleton mapped back before it is
\* handed to predict_skinning.
PredictSkeletonThenDenormalize(r) ==
    /\ rpc[r] = "joints"
    /\ log' = [log EXCEPT ![r] = @ \o <<"skeleton", "denormalize">>]
    /\ \/ /\ rpc' = [rpc EXCEPT ![r] = "skeleton"]
          /\ UNCHANGED rerr
       \/ Raise(r, "StageError")
    /\ UNCHANGED <<MESH_NORMALIZED, mesh_cast, files, cache_cleared, tool, exceptRig>>

\* 497; the normalize call of 498 is a comment.
PredictSkeletonStage(r) == PureStage(r, "joints", "skeleton", "skeleton")

\* The mesh calc_geodesic_matrix_2 decimates or exports (326, 341): the global,
\* whoever bound it last.
\* A per-run binding in place of the global: what the claim describes.
GeodesicMeshOwnRun(r) == r

GeodesicMesh(r) == MESH_NORMALIZED

\* predict_skinning 380-447, called at predict_rig 501, with
\* calc_geodesic_matrix_2 325-344 inside: the mesh is written to a temporary
\* file, loaded by trimesh and the file unlinked; a failing load leaves it.
\*   392-393  get_bones: a failure here ends the run before the global is read
\*   396      calc_geodesic_matrix_2 takes the mesh from the global (326, 341)
predict_skinning(r, use_sampling, outcome) ==
    /\ rpc[r] = "skeleton"
    /\ log' = [log EXCEPT ![r] = Append(@, "skinning")]
    /\ CASE outcome = "early_raises" ->
              /\ UNCHANGED <<mesh_cast, files>>
              /\ Raise(r, "StageError")
         [] outcome = "load_raises" ->
              /\ mesh_cast' = [mesh_cast EXCEPT ![r] = GeodesicMesh(r)]
              /\ files' = files \cup
                     {<<r, IF use_sampling THEN "simplified_obj" ELSE "full_obj">>}
              /\ Raise(r, "StageError")
         [] outcome = "later_raises" ->
              \* the mesh was taken; no export is on disk when the stage fails
              /\ mesh_cast' = [mesh_cast EXCEPT ![r] = GeodesicMesh(r)]
              /\ files' = files
              /\ Raise(r, "StageError")
         [] OTHER ->
              /\ mesh_cast' = [mesh_cast EXCEPT ![r] = GeodesicMesh(r)]
              /\ files' = files
              /\ rpc' = [rpc EXCEPT ![r] = "rig"]
              /\ UNCHANGED rerr
    /\ UNCHANGED <<MESH_NORMALIZED, cache_cleared, tool, exceptRig>>

PredictSkinningStage(r) ==
    \E use_sampling \in BOOLEAN :
        \E outcome \in {"returns", "early_raises", "load_raises", "later_raises"} :
            predict_skinning(r, use_sampling, outcome)

\* predict_rig 504-516: the inverse normalization, the armature generation
\* and, last, torch.cuda.empty_cache().  A step that raises ends the run
\* where it stands.
finish(r, outcome) ==
    /\ rpc[r] = "rig"
    /\ CASE outcome = "normalize_raises" ->
              /\ log' = [log EXCEPT ![r] = @ \o <<"denormalize">>]
              /\ UNCHANGED cache_cleared
              /\ Raise(r, "StageError")
         [] outcome = "generate_raises" ->
              /\ log' = [log EXCEPT ![r] = @ \o <<"denormalize", "generate">>]
              /\ UNCHANGED cache_cleared
              /\ Raise(r, "StageError")
         [] OTHER ->
              /\ log' = [log EXCEPT ![r] = @ \o <<"denormalize", "generate", "empty_cache">>]
              /\ cache_cleared' = empty_cache(r)
              /\ rpc' = [rpc EXCEPT ![r] = "done"]
              /\ UNCHANGED rerr
    /\ UNCHANGED <<MESH_NORMALIZED, mesh_cast, files, tool, exceptRig>>

Finish(r) ==
    \E outcome \in {"returns", "normalize_raises", "generate_raises"} :
        finish(r, outcome)

\* clear() 519-520, called by unregister() (__init__.py 70) outside any run:
\* torch.cuda.empty_cache() releases what the runs that have ended left.
Clear ==
    /\ cache_cleared' = empty_cache(0)
    /\ UNCHANGED <<rpc, MESH_NORMALIZED, mesh_cast, files, rerr, tool, log, exceptRig>>

\* calc_geodesic_matrix 259-312, the older entry point, called by no run: with
\* subsampling the simplified mesh is written next to the mesh file (272),
\* over the one an earlier call may have left, and removed at 311; a failure
\* in 273-310 leaves it, a failure before 272 leaves what was there.  File
\* owner 0: no run.
calc_geodesic_matrix_files(subsampling, outcome) ==
    /\ files' = IF subsampling /\ outcome = "raises"
                THEN files \cup {<<0, "simplified_obj">>}
                ELSE IF subsampling /\ outcome = "returns"
                THEN files \ {<<0, "simplified_obj">>}
                ELSE files
    /\ UNCHANGED <<rpc, MESH_NORMALIZED, mesh_cast, cache_cleared, rerr, tool, log,
                   exceptRig>>

CalcGeodesicMatrixFiles ==
    \E subsampling \in BOOLEAN :
        \E outcome \in {"returns", "raises", "raises_before_write"} :
            calc_geodesic_matrix_files(subsampling, outcome)

RigNext ==
    \/ \E r \in Runs :
           \/ LoadNetworks(r)
           \/ CreateSingleDataBegin(r)
           \/ CreateSingleDataEnd(r)
           \/ PredictJointsStage(r)
           \/ PredictSkeletonStage(r)
           \/ PredictSkinningStage(r)
           \/ Finish(r)
    \/ Clear
    \/ CalcGeodesicMatrixFiles

\* C6: a missing or failing voxelizer makes create_single_data raise a
\* ToolingUnavailableError and leaves neither the exported .obj nor the .binvox.
C6_VoxelizerFailureCleansUp ==
    \A r \in Runs :
        (Ran(r, "create") /\ tool[r] \in {"missing", "not_executable", "nonzero_exit", "no_output",
                         "unreadable_output"}) =>
            /\ rerr[r] = "ToolingUnavailableError"
            /\ FilesOf(r, {"normalized_obj", "binvox"}) = {}

\* C7: on every exit of predict_rig past the loading of the networks, by return
\* or by an exception of a stage, the device cache has been emptied and no mesh
\* export of the run is left on disk.
C7_CleanupOnEveryExit ==
    \A r \in Runs :
        (rpc[r] \in {"done", "failed"} /\ Ran(r, "create")) =>
            /\ cache_cleared[r]
            /\ FilesOf(r, MeshExports) = {}

\* C8: the mesh a run's volumetric geodesic stage ray-casts against is the mesh
\* its own create_single_data normalized, under every interleaving of two runs.
C8_GeodesicUsesOwnMesh ==
    \A r \in Runs : mesh_cast[r] # 0 => mesh_cast[r] = r

(***************************************************************************)
(* calc_geodesic_matrix_2 (rignetconnect.py 315-377): the volumetric       *)
(* distance of every sample point to every bone.  Distances are integers   *)
(* in units of 0.1; an infinite surface geodesic is Inf.                   *)
(***************************************************************************)
NumPts == 3

NumBones == 1

MinDist == 6

MaxDist == 8

MaxGeo == 2

\* 8.0 (line 370), in units of 0.1.
FallbackConstant == 80

Inf == 0 - 1

Pts == 1..NumPts

Bones == 1..NumBones

IsInf(x) == x = Inf

\* a < b on floats that may be inf (no NaN arises here).
LessF(a, b) == ~IsInf(a) /\ (IsInf(b) \/ a < b)

AddF(a, b) == IF IsInf(a) \/ IsInf(b) THEN Inf ELSE a + b

RECURSIVE InsertSorted(_, _)
InsertSorted(x, s) ==
    IF s = <<>> THEN <<x>>
    ELSE IF x <= Head(s) THEN <<x>> \o s
    ELSE <<Head(s)>> \o InsertSorted(x, Tail(s))

RECURSIVE SortAscending(_)
SortAscending(s) == IF s = <<>> THEN <<>> ELSE InsertSorted(Head(s), SortAscending(Tail(s)))

\* The elements of a set of integers in ascending order (np.argwhere order).
RECURSIVE Ascending(_)
Ascending(S) ==
    IF S = {} THEN <<>> ELSE <<SetMin(S)>> \o Ascending(S \ {SetMin(S)})

\* 100 * np.percentile(values, 15), linear interpolation between order statistics.
Percentile15x100(values) ==
    LET a  == SortAscending(values)
        n  == Len(a)
        p  == 15 * (n - 1)
        lo == (p \div 100) + 1
        fr == p % 100
    IN  IF lo + 1 <= n THEN 100 * a[lo] + fr * (a[lo + 1] - a[lo]) ELSE 100 * a[lo]

VisiblePts(vis, c) == { r \in Pts : vis[r][c] }

\* 351-356: a visible point farther than 1.3 x the 15th percentile of the visible
\* distances stops counting as visible.
RemoveFar(vis, dist) ==
    [r \in Pts |-> [c \in Bones |->
        IF VisiblePts(vis, c) = {} THEN vis[r][c]
        ELSE LET seq == Ascending(VisiblePts(vis, c))
                 thr == Percentile15x100([i \in 1..Len(seq) |-> dist[seq[i]][c]])
             IN  vis[r][c] /\ ~(1000 * dist[r][c] > 13 * thr)]]

\* np.min(surface_geodesic[r, visible_pts])
MinGeo(sg, r, visible) ==
    CHOOSE d \in { sg[r][p] : p \in visible } :
        \A p \in visible : ~LessF(sg[r][p], d)

\* visible_pts[np.argmin(surface_geodesic[r, visible_pts])]: the first of the
\* minima in the order the points are stored in.
ArgMinGeo(sg, r, visible, order) ==
    LET best == { p \in visible : sg[r][p] = MinGeo(sg, r, visible) }
        pos(p) == CHOOSE i \in 1..Len(order) : order[i] = p
    IN  CHOOSE p \in best : \A q \in best : pos(p) <= pos(q)

\* The claim's estimate: the cheapest combined path over all visible points.
ImputeMinCombined(sg, dist, r, c, visible, order) ==
    LET paths == { AddF(sg[r][p], dist[p][c]) : p \in visible }
    IN  CHOOSE d \in paths : \A e \in paths : ~LessF(e, d)

\* A plausible slip: the np.isinf test of 369-370 is left out.
ImputeWithoutFallback(sg, dist, r, c, visible, order) ==
    AddF(MinGeo(sg, r, visible), dist[ArgMinGeo(sg, r, visible, order)][c])

\* 367-372: the path through the visible point nearest along the surface.
Impute(sg, dist, r, c, visible, order) ==
    LET dist1 == MinGeo(sg, r, visible)
        nn_visible == ArgMinGeo(sg, r, visible, order)
    IN  IF IsInf(dist1) THEN FallbackConstant + dist[r][c]
        ELSE dist1 + dist[nn_visible][c]

\* 358-372: visible entries keep their Euclidean distance, a bone nobody sees
\* gets the Euclidean distance everywhere, the rest is imputed.
VisibleMatrix(vis, dist, sg, order) ==
    [r \in Pts |-> [c \in Bones |->
        IF vis[r][c] \/ VisiblePts(vis, c) = {} THEN dist[r][c]
        ELSE Impute(sg, dist, r, c, VisiblePts(vis, c), order)]]

\* The mesh vertices: the sample points, then the vertices np.random.choice
\* left out (335).
MeshVertices(in) == 1..(NumPts + Len(in.extra))

VertexPos(in, v) == IF v <= NumPts THEN in.pos[v] ELSE in.extra[v - NumPts]

\* 374-375: np.argmin of the squared distances from a vertex to the samples,
\* the first of the minima in the order the samples were drawn in.
NearestSample(in, v) ==
    LET d(p) == (VertexPos(in, v) - in.pos[p]) * (VertexPos(in, v) - in.pos[p])
        best == { p \in Pts : \A q \in Pts : d(p) <= d(q) }
        at(p) == CHOOSE i \in 1..Len(in.order) : in.order[i] = p
    IN  CHOOSE p \in best : \A q \in best : at(p) <= at(q)

\* 373-376: with use_sampling every mesh vertex takes the row of the sample
\* nearest to it; without, the samples are the mesh vertices.
Gather(in, mat) ==
    IF in.use_sampling THEN [v \in MeshVertices(in) |-> mat[NearestSample(in, v)]]
    ELSE mat

\* mat is visible_matrix over the samples (358-372), ret what is returned.
calc_geodesic_matrix_2(in) ==
    LET vis == RemoveFar(in.vis, in.dist)
        mat == VisibleMatrix(vis, in.dist, in.sg, in.order)
    IN  [vis |-> vis, mat |-> mat, ret |-> Gather(in, mat)]

\* calc_geodesic_matrix 259-312, the older entry point: the same far-point
\* filter (282-287), imputation (289-303) and gather (304-310).
calc_geodesic_matrix(in) == calc_geodesic_matrix_2(in)

\* Surface geodesic matrices (spec 3, "Surface Geodesic Matrix": symmetric,
\* shortest-path distances along the mesh surface): zero on the diagonal,
\* symmetric, obeying the triangle inequality, Inf between points of
\* different components.  calc_geodesic_matrix_2 takes the matrix as an
\* argument and checks nothing about it: two samples at one place may have
\* any distance between them, Inf included.
PtPairs == { pr \in Pts \X Pts : pr[1] < pr[2] }

GeoMatrixOf(f) ==
    [r \in Pts |-> [p \in Pts |->
        IF r = p THEN 0 ELSE IF r < p THEN f[<<r, p>>] ELSE f[<<p, r>>]]]

GeoMatrices ==
    { sg \in { GeoMatrixOf(f) : f \in [PtPairs -> (0..MaxGeo) \cup {Inf}] } :
        \A r, p, q \in Pts : ~LessF(AddF(sg[r][q], sg[q][p]), sg[r][p]) }

\* The order the sample points are stored in: the mesh order, or with
\* use_sampling the order np.random.choice drew them in (335).
SampleOrders ==
    { o \in [Pts -> Pts] : \A p \in Pts : \E i \in Pts : o[i] = p }

CalcGeodesicMatrix2 ==
    /\ gpc = "input"
    /\ geo_out' = calc_geodesic_matrix_2(geo_in)
    /\ gpc' = "done"
    /\ UNCHANGED <<geo_in, exceptGeo>>

CalcGeodesicMatrix ==
    /\ gpc = "input"
    /\ geo_out' = calc_geodesic_matrix(geo_in)
    /\ gpc' = "done"
    /\ UNCHANGED <<geo_in, exceptGeo>>

GeoNext == CalcGeodesicMatrix2 \/ CalcGeodesicMatrix

MaxPos == 2

MaxExtra == 1

\* Where the sample points lie, on a line: the first at 0, every next one at
\* most one past the farthest so far.  Points may coincide.
SamplePositions ==
    { pos \in [Pts -> 0..MaxPos] :
        /\ pos[1] = 0
        /\ \A p \in Pts \ {1} : pos[p] <= 1 + SetMax({ pos[q] : q \in 1..(p - 1) }) }

\* pts2line and calc_pts2bone_visible_mat (346-349) see positions only: points
\* at one position have one distance and one visibility.
SamePlaceSameView(pos, vis, dist) ==
    \A p, q \in Pts : pos[p] = pos[q] => (vis[p] = vis[q] /\ dist[p] = dist[q])

\* The inputs: without use_sampling the samples are the mesh vertices in mesh
\* order (344); with it they are drawn in any order and vertices may be
\* left out (335-337).
GeoInputs ==
    { in \in [use_sampling : {FALSE},
              vis : [Pts -> [Bones -> BOOLEAN]],
              dist : [Pts -> [Bones -> MinDist..MaxDist]],
              sg : GeoMatrices,
              order : {[i \in Pts |-> i]},
              pos : {[p \in Pts |-> p - 1]},
              extra : {<<>>}] : TRUE }
    \cup
    { in \in [use_sampling : {TRUE},
              vis : [Pts -> [Bones -> BOOLEAN]],
              dist : [Pts -> [Bones -> MinDist..MaxDist]],
              sg : GeoMatrices,
              order : SampleOrders,
              pos : SamplePositions,
              extra : SeqsOf(0..MaxPos, 0, MaxExtra)] :
        SamePlaceSameView(in.pos, in.vis, in.dist) }

\* C3: a point with no visibility to a bone, and a finite surface path to a
\* point that sees it, gets the minimum over all visible points of surface
\* geodesic plus distance to the bone.
C3_ImputesMinimumCombinedPath ==
    gpc = "done" =>
        \A r \in Pts : \A c \in Bones :
            LET visible == VisiblePts(geo_out.vis, c)
            IN  (~geo_out.vis[r][c] /\ \E p \in visible : ~IsInf(geo_in.sg[r][p])) =>
                    geo_out.ret[r][c] =
                        ImputeMinCombined(geo_in.sg, geo_in.dist, r, c, visible, geo_in.order)

\* A point that does not see bone c and has no finite surface path to any
\* point that does, while some point does see it.
Unreachable(r, c) ==
    LET visible == VisiblePts(geo_out.vis, c)
    IN  /\ ~geo_out.vis[r][c]
        /\ visible # {}
        /\ \A p \in visible : IsInf(geo_in.sg[r][p])

\* C13: every entry of the returned matrix is finite and non-negative, whatever
\* the visibility pattern and the infinite entries of the surface geodesic
\* matrix; an unreachable occluded point gets 8.0 plus its Euclidean distance.
C13_MatrixIsFinite ==
    gpc = "done" =>
        /\ \A v \in DOMAIN geo_out.ret : \A c \in Bones :
               ~IsInf(geo_out.ret[v][c]) /\ geo_out.ret[v][c] >= 0
        /\ \A r \in Pts : \A c \in Bones :
               Unreachable(r, c) =>
                   geo_out.ret[r][c] = FallbackConstant + geo_in.dist[r][c]

\* The row the function returns for sample r is r's own row of visible_matrix:
\* there was no subsampling, or r is the sample the gather of 373-376 finds
\* nearest to r, the first drawn of those at r's place.
OwnRowReturned(r) == ~geo_in.use_sampling \/ NearestSample(geo_in, r) = r

\* C13 as the code has it: every entry of the returned matrix is finite and
\* non-negative; an unreachable occluded sample has 8.0 plus its Euclidean
\* distance in the matrix over the samples, and in the returned matrix when
\* the row returned for it is its own.
C13_FiniteAndFallbackBeforeGather ==
    gpc = "done" =>
        /\ \A v \in DOMAIN geo_out.ret : \A c \in Bones :
               ~IsInf(geo_out.ret[v][c]) /\ geo_out.ret[v][c] >= 0
        /\ \A r \in Pts : \A c \in Bones :
               Unreachable(r, c) =>
                   /\ geo_out.mat[r][c] = FallbackConstant + geo_in.dist[r][c]
                   /\ OwnRowReturned(r) =>
                          geo_out.ret[r][c] = FallbackConstant + geo_in.dist[r][c]

\* With subsampling, a sample that shares its place with the sample drawn
\* before it is occluded from a bone with no finite surface path to the point
\* that sees it: it took the fallback, and the row returned for it is the
\* other sample's.
C13_Witness ==
    /\ gpc = "done"
    /\ geo_in.use_sampling
    /\ \E r \in Pts : \E c \in Bones :
           /\ Unreachable(r, c)
           /\ NearestSample(geo_in, r) # r
           /\ geo_out.mat[r][c] = FallbackConstant + geo_in.dist[r][c]
           /\ geo_out.ret[r][c] # geo_out.mat[r][c]

(***************************************************************************)
(* predict_skinning (rignetconnect.py 380-447).  The network's softmax     *)
(* output is an input: per vertex, positive weights over the 5 slots that  *)
(* sum to 1.0.  A weight <<a, b>> is the float a / WeightOne + b * 1e-10:  *)
(* whole units of the softmax output, and multiples of the 1e-10 that line *)
(* 445 adds to the row sum.                                                *)
(***************************************************************************)
\* num_nearest_bone = 5 (line 391)
num_nearest_bone == 5

NumSkinVerts == 2

MaxSkinBones == 5

MaxSkinDist == 2

SoftmaxExtra == 1

\* The tolerance of "sums to 1", 1e-6, in multiples of 1e-10.
ToleranceEps == 10000

SkinVerts == 1..NumSkinVerts

Slots == 1..num_nearest_bone

\* How many units make 1.0.
WeightOne == num_nearest_bone + SoftmaxExtra

WZero == <<0, 0>>

WAdd(x, y) == <<x[1] + y[1], x[2] + y[2]>>

WSub(x, y) == <<x[1] - y[1], x[2] - y[2]>>

WScale(k, x) == <<k * x[1], k * x[2]>>

\* x < y on floats: a multiple of 1e-10 is far below one unit, so the units
\* decide and the multiples of 1e-10 break a tie.
WLess(x, y) == x[1] < y[1] \/ (x[1] = y[1] /\ x[2] < y[2])

WMax(S) == CHOOSE x \in S : \A y \in S : ~WLess(x, y)

\* np.argsort(geo_dist_v): the bones from near to far, equal distances in
\* index order.
ArgSort(d, nb) ==
    LET before(a, b) == d[a] < d[b] \/ (d[a] = d[b] /\ a < b)
    IN  [i \in 1..nb |->
            CHOOSE b \in 1..nb : Cardinality({ a \in 1..nb : before(a, b) }) = i - 1]

\* 406-419: this_nn and this_mask of one vertex. A slot past the last bone is
\* padded: bone index 0 (the first bone, 1 here) and mask 0.
SkinNN(d, nb) ==
    [i \in Slots |-> IF i > nb THEN 1 ELSE ArgSort(d, nb)[i]]

LossMask(nb) == [i \in Slots |-> IF i > nb THEN 0 ELSE 1]

\* 434: skin_pred = skin_pred * loss_mask
Masked(pred, nb) == [i \in Slots |-> WScale(LossMask(nb)[i], pred[i])]

\* 438-440: the slots are written in order, a later slot overwrites an earlier
\* one that names the same bone.
RECURSIVE ScatterFrom(_, _, _, _)
ScatterFrom(row, nn, pred, i) ==
    IF i > num_nearest_bone THEN row
    ELSE ScatterFrom([row EXCEPT ![nn[i]] = pred[i]], nn, pred, i + 1)

Scatter(nn, pred, nb) == ScatterFrom([b \in 1..nb |-> WZero], nn, pred, 1)

\* post_filter(skin_pred_full, tpl_e, num_ring=1): every row becomes the mean
\* over the vertex's 1-ring.  A filtered row is kept as the sum over the ring
\* and the number of rows in it; the row itself is sum / count.
Ring(v, tpl) == {v} \cup { u \in SkinVerts : {u, v} \in tpl }

RECURSIVE SumOver(_, _, _)
SumOver(S, full, b) ==
    IF S = {} THEN WZero
    ELSE LET u == CHOOSE x \in S : TRUE
         IN  WAdd(full[u][b], SumOver(S \ {u}, full, b))

post_filter(full, tpl, nb) ==
    [v \in SkinVerts |->
        [sum |-> [b \in 1..nb |-> SumOver(Ring(v, tpl), full, b)],
         count |-> Cardinality(Ring(v, tpl))]]

\* 444: weights below 0.35 x the row's maximum are set to 0.
Threshold(row, nb) ==
    LET m == WMax({ row.sum[b] : b \in 1..nb })
    IN  [sum |-> [b \in 1..nb |->
                     IF WLess(WScale(100, row.sum[b]), WScale(35, m))
                     THEN WZero ELSE row.sum[b]],
         count |-> row.count]

RECURSIVE WSumTo(_, _)
WSumTo(s, n) == IF n = 0 THEN WZero ELSE WAdd(WSumTo(s, n - 1), s[n])

RowSum(row, nb) == WSumTo(row.sum, nb)

\* 445: row / (row.sum() + 1e-10).  With row = sum / count this is
\* sum / (total + count * 1e-10): every weight is the quotient <<num, den>> of
\* two floats.  An all-zero row stays 0 / 1e-10 = 0.
Renormalize(row, nb) ==
    LET den == WAdd(RowSum(row, nb), <<0, row.count>>)
    IN  [b \in 1..nb |-> <<row.sum[b], den>>]

predict_skinning_weights(in) ==
    LET nb   == in.nb
        nn   == [v \in SkinVerts |-> SkinNN(in.geo_dist[v], nb)]
        pred == [v \in SkinVerts |-> Masked(in.net[v], nb)]
        full == [v \in SkinVerts |-> Scatter(nn[v], pred[v], nb)]
        filt == post_filter(full, in.tpl, nb)
    IN  [nn |-> nn,
         mask |-> LossMask(nb),
         scattered |-> full,
         filtered |-> filt,
         final |-> [v \in SkinVerts |-> Renormalize(Threshold(filt[v], nb), nb)]]

\* torch.softmax(skin_pred, dim=1): positive weights that sum to 1.  Either the
\* slot the network favours takes SoftmaxExtra units more than the others, or
\* it takes all but 1e-10 for each of the others.
SoftmaxRows ==
    { [i \in Slots |-> IF i = k THEN <<1 + SoftmaxExtra, 0>> ELSE <<1, 0>>] : k \in Slots }
    \cup
    { [i \in Slots |-> IF i = k THEN <<WeightOne, 1 - num_nearest_bone>> ELSE <<0, 1>>]
          : k \in Slots }

\* The mesh edges tpl_e can hold (input_data.tpl_edge_index, 442).
MeshEdges == { {w[1], w[2]} : w \in { x \in SkinVerts \X SkinVerts : x[1] < x[2] } }

SkinInputs ==
    UNION { [nb : {n},
             geo_dist : [SkinVerts -> [1..n -> 1..MaxSkinDist]],
             net : [SkinVerts -> SoftmaxRows],
             tpl : SUBSET MeshEdges] : n \in 1..MaxSkinBones }

PredictSkinning ==
    /\ spc = "input"
    /\ skin_out' = predict_skinning_weights(skin_in)
    /\ spc' = "done"
    /\ UNCHANGED <<skin_in, exceptSkin>>

SkinNext == PredictSkinning

\* The sum of the numerators of a final row; its weights share one denominator.
FinalRowSum(row, n) == WSumTo([b \in 1..n |-> row[b][1]], n)

\* num / den is within the tolerance of 1: the two differ by multiples of 1e-10
\* only, by no more than the tolerance times the denominator.
NearOne(num, den) ==
    LET d == WSub(den, num)
    IN  /\ d[1] = 0
        /\ Abs(d[2]) * WeightOne <= ToleranceEps * den[1]

\* C2: in the final weight matrix every weight is >= 0 and every row sums to 1
\* within the tolerance, for every bone count B >= 1.
C2_RowsAreStochastic ==
    spc = "done" =>
        \A v \in SkinVerts :
            /\ \A b \in 1..skin_in.nb :
                   /\ ~WLess(skin_out.final[v][b][1], WZero)
                   /\ WLess(WZero, skin_out.final[v][b][2])
            /\ NearOne(FinalRowSum(skin_out.final[v], skin_in.nb),
                       skin_out.final[v][1][2])

(***************************************************************************)
(* predict_joints (rignetconnect.py 154-221).  Positions are integer       *)
(* triples; the symmetry plane is x = 0.  The joint network, the voxel     *)
(* oracle and the clustering routines are collaborators: the network's     *)
(* candidates and the oracle's answers are inputs, mean-shift may move     *)
(* every point anywhere in the box the points span.                        *)
(***************************************************************************)
MaxCand == 2

MaxX == 1

MaxY == 1

MaxBandwidth == 2

\* The density threshold is threshold / ThresholdUnit.
ThresholdUnit == 4

MaxThreshold == 2

Grid == { <<x, y, 0>> : x \in (0 - MaxX)..MaxX, y \in 0..MaxY }

\* A candidate: the displaced vertex, the voxel oracle's answer for it, and
\* whether its attention is above 1e-3.
Candidates == [pos : Grid, inside : BOOLEAN, attn_above : BOOLEAN]

\* The function f on 1..n as the tuple of its values.
Tuple(f) == f \o <<>>

\* The elements s[i] with keep[i], in order (boolean-mask indexing).
FilterSeq(s, keep) ==
    LET idx == { i \in 1..Len(s) : keep[i] }
    IN  Tuple([k \in 1..Cardinality(idx) |->
                  s[CHOOSE i \in idx : Cardinality({ j \in idx : j < i }) = k - 1]])

InSeq(x, s) == \E i \in 1..Len(s) : s[i] = x

\* 169-172: inside_check, then attention > 1e-3.  The mask of 171-172 is
\* attn_pred_np.squeeze() > 1e-3: with exactly one candidate inside the squeeze
\* leaves a 0-d array, the 0-d mask puts a new axis in front of both arrays
\* instead of filtering them (extra_axis), and the arrays are no longer N x 3
\* and N x 1.
KeepCandidates(cand) ==
    LET inside == FilterSeq(cand, [i \in 1..Len(cand) |-> cand[i].inside])
        kept == FilterSeq(inside, [i \in 1..Len(inside) |-> inside[i].attn_above])
    IN  [pts |-> Tuple([i \in 1..Len(kept) |-> kept[i].pos]),
         extra_axis |-> Len(inside) = 1]

Mirror(p) == <<0 - p[1], p[2], p[3]>>

\* 175-176: y_pred_np * [-1, 1, 1] appended to y_pred_np.
Reflect(pts) == pts \o [i \in 1..Len(pts) |-> Mirror(pts[i])]

SqDist(p, q) ==
    (p[1] - q[1]) * (p[1] - q[1]) + (p[2] - q[2]) * (p[2] - q[2])
        + (p[3] - q[3]) * (p[3] - q[3])

\* 185-187: density[i] = sum over j of max(bandwidth^2 - |y_i - y_j|^2, 0)
Density(pts, bandwidth) ==
    Tuple([i \in 1..Len(pts) |->
              SumSeq([j \in 1..Len(pts) |->
                         Max2(bandwidth * bandwidth - SqDist(pts[i], pts[j]), 0)])])

\* 188-191: the points with density / density_sum > threshold.
DenseMask(pts, bandwidth, threshold) ==
    LET density == Density(pts, bandwidth)
    IN  Tuple([i \in 1..Len(pts) |->
                  density[i] * ThresholdUnit > threshold * SumSeq(density)])

\* nms_meanshift(pts, density, bandwidth): the densest remaining point is kept
\* and the points within the bandwidth of it are dropped, until none remains.
RECURSIVE NmsFrom(_, _, _, _)
NmsFrom(pts, density, bandwidth, remaining) ==
    IF remaining = {} THEN <<>>
    ELSE LET top == CHOOSE i \in remaining :
                        \A k \in remaining :
                            density[i] > density[k] \/ (density[i] = density[k] /\ i <= k)
         IN  <<pts[top]>> \o
             NmsFrom(pts, density, bandwidth,
                     { k \in remaining : SqDist(pts[k], pts[top]) > bandwidth * bandwidth })

nms_meanshift(pts, density, bandwidth) ==
    NmsFrom(pts, density, bandwidth, 1..Len(pts))

\* flip(pred_joints): every joint off the symmetry plane whose mirror is missing
\* gets its mirror inserted.
flip(joints) ==
    LET missing == FilterSeq(joints,
                       [i \in 1..Len(joints) |->
                           joints[i][1] # 0 /\ ~InSeq(Mirror(joints[i]), joints)])
    IN  joints \o [i \in 1..Len(missing) |-> Mirror(missing[i])]

\* 185-191: the shifted points that pass the density filter, with their
\* densities.
DenseOf(shifted, bandwidth, threshold) ==
    LET mask == DenseMask(shifted, bandwidth, threshold)
    IN  [pts |-> FilterSeq(shifted, mask),
         density |-> FilterSeq(Density(shifted, bandwidth), mask)]

\* A plausible slip: the suppressed joints are stored without the flip of 195.
JointsOfWithoutFlip(dense, bandwidth) ==
    nms_meanshift(dense.pts, dense.density, bandwidth)

\* 194-195, 212-216: from the dense points to input_data.joints.
JointsOf(dense, bandwidth) ==
    flip(nms_meanshift(dense.pts, dense.density, bandwidth))

\* meanshift_cluster(y_pred_np, bandwidth, attn_pred_np, max_iter=40): as many
\* points as it was given, each moved within the box the points span.
Shifted(pts) ==
    IF pts = <<>> THEN {<<>>} ELSE
    LET xs == { pts[i][1] : i \in 1..Len(pts) }
        ys == { pts[i][2] : i \in 1..Len(pts) }
        box == { g \in Grid : /\ SetMin(xs) <= g[1] /\ g[1] <= SetMax(xs)
                              /\ SetMin(ys) <= g[2] /\ g[2] <= SetMax(ys) }
    IN  [1..Len(pts) -> box]

\* predict_joints with at least one candidate left after every filter.
predict_joints(shifted) ==
    LET in == joint_in
        dense == DenseOf(shifted, in.bandwidth, in.threshold)
    IN  /\ dense.pts # <<>>
        /\ joint_out' = [kept |-> Len(shifted) \div 2,
                         dense |-> Len(dense.pts),
                         joints |-> JointsOf(dense, in.bandwidth),
                         err |-> "none"]
        /\ jpc' = "done"
        /\ UNCHANGED <<joint_in, exceptJoint>>

PredictJoints ==
    /\ jpc = "input"
    /\ ~KeepCandidates(joint_in.cand).extra_axis
    /\ KeepCandidates(joint_in.cand).pts # <<>>
    /\ \E shifted \in Shifted(Reflect(KeepCandidates(joint_in.cand).pts)) :
           predict_joints(shifted)

\* predict_joints with exactly one candidate inside the mesh: the arrays that
\* left 171-172 with an axis too many are reflected and tiled (175-177), and the
\* density mask of 188, built from them, does not fit the array it indexes at
\* 189: IndexError, unless the clustering routine has already refused the
\* array.  Nothing is stored.  dense counts what the last filter that ran left.
predict_joints_one_inside(kept) ==
    /\ joint_out' = [kept |-> Len(kept.pts),
                     dense |-> Len(kept.pts),
                     joints |-> <<>>,
                     err |-> "IndexError"]
    /\ jpc' = "failed"
    /\ UNCHANGED <<joint_in, exceptJoint>>

PredictJointsOneInside ==
    /\ jpc = "input"
    /\ KeepCandidates(joint_in.cand).extra_axis
    /\ predict_joints_one_inside(KeepCandidates(joint_in.cand))

\* predict_joints when a filter leaves nothing: there is no check, the empty
\* arrays go on through the clustering routines, which hand back no joint or
\* fail on the empty array with whatever numpy raises.
predict_joints_empty(shifted, outcome) ==
    LET in == joint_in
        dense == DenseOf(shifted, in.bandwidth, in.threshold)
    IN  /\ dense.pts = <<>>
        /\ joint_out' = [kept |-> Len(shifted) \div 2,
                         dense |-> 0,
                         joints |-> <<>>,
                         err |-> IF outcome = "returns" THEN "none" ELSE "NumpyError"]
        /\ jpc' = IF outcome = "returns" THEN "done" ELSE "failed"
        /\ UNCHANGED <<joint_in, exceptJoint>>

PredictJointsEmpty ==
    /\ jpc = "input"
    /\ ~KeepCandidates(joint_in.cand).extra_axis
    /\ \E shifted \in Shifted(Reflect(KeepCandidates(joint_in.cand).pts)) :
           \E outcome \in {"returns", "raises"} :
               predict_joints_empty(shifted, outcome)

JointNext == PredictJoints \/ PredictJointsEmpty \/ PredictJointsOneInside

C10_EmptyJointSetRejected ==
    (jpc # "input" /\ joint_out.dense = 0) =>
        (jpc = "failed" /\ joint_out.err = "InsufficientJointsError")

(***************************************************************************)
(* predict_skeleton (rignetconnect.py 224-256).  Joints are numbered from  *)
(* 1; in a parent array -1 marks the root and 0 an entry never assigned.   *)
(* The root network and the connectivity network are collaborators: the    *)
(* root id and the connection probabilities are inputs.  A probability is  *)
(* a level 1..MaxProb, and 0 where the matrix was never written.           *)
(***************************************************************************)
\* How many joints the suppression hands to flip.
MaxStored == 2

MaxProb == 2

\* How many joint pairs have their bone outside the mesh.
MaxOutside == 1

\* input_data.joints as predict_joints stored it (194-195, 216).
SkelJoints ==
    { flip(q) : q \in { q \in SeqsOf(Grid, 1, MaxStored) :
                           \A i, j \in 1..Len(q) : i # j => q[i] # q[j] } }

\* 199: it.combinations(range(n), 2).
Pairs(n) == { pr \in (1..n) \X (1..n) : pr[1] < pr[2] }

\* 240-243: zeros, the probabilities written at the pairs, plus the transpose.
prob_matrix(n, connect_prob) ==
    LET upper == [e \in (1..n) \X (1..n) |->
                     IF e \in Pairs(n) THEN connect_prob[e] ELSE 0]
    IN  [e \in (1..n) \X (1..n) |-> upper[e] + upper[<<e[2], e[1]>>]]

\* 244: -log(p + 1e-10) by rank: the larger the probability the smaller the
\* cost, and the never-written entries cost the most.
NegLog(p) == MaxProb + 1 - p

cost_matrix(prob) == [e \in DOMAIN prob |-> NegLog(prob[e])]

OutsidePenalty == MaxProb

\* increase_cost_for_outside_bone(cost_matrix, pred_joints, vox): a penalty is
\* added to the cost of a pair whose bone runs outside the mesh.
increase_cost_for_outside_bone(cost, outside) ==
    [e \in DOMAIN cost |->
        IF e \in outside \/ <<e[2], e[1]>> \in outside
        THEN cost[e] + OutsidePenalty ELSE cost[e]]

\* The index of the joint at the mirrored position (the joint itself on the
\* symmetry plane).
MirrorIdx(joints, i) ==
    CHOOSE k \in 1..Len(joints) : joints[k] = Mirror(joints[i])

\* The order in which frontier edges are selected: by cost, ties by index.
EdgeBefore(cost, e, f) ==
    \/ cost[e] < cost[f]
    \/ /\ cost[e] = cost[f]
       /\ (e[2] < f[2] \/ (e[2] = f[2] /\ e[1] <= f[1]))

\* primMST_symmetry (spec 4.4 step 4): the cheapest edge from the tree to a
\* joint outside it is taken; when joint v goes under parent u, the mirror of
\* v, if it is another joint and still outside the tree, goes under the mirror
\* of u (u itself on the symmetry plane), whether or not that mirror has been
\* reached.
RECURSIVE PrimFrom(_, _, _, _)
PrimFrom(cost, joints, inTree, parent) ==
    LET n == Len(joints)
        frontier == { e \in (1..n) \X (1..n) : e[1] \in inTree /\ e[2] \notin inTree }
    IN  IF frontier = {} THEN parent
        ELSE LET e == CHOOSE e \in frontier : \A f \in frontier : EdgeBefore(cost, e, f)
                 u == e[1]
                 v == e[2]
                 u2 == MirrorIdx(joints, u)
                 v2 == MirrorIdx(joints, v)
                 mirrored == v2 # v /\ v2 \notin inTree
             IN  PrimFrom(cost, joints,
                          inTree \cup {v} \cup (IF mirrored THEN {v2} ELSE {}),
                          [parent EXCEPT ![v] = u,
                                         ![v2] = IF mirrored THEN u2 ELSE @])

primMST_symmetry(cost, root_id, joints) ==
    PrimFrom(cost, joints, {root_id},
             [i \in 1..Len(joints) |-> IF i = root_id THEN 0 - 1 ELSE 0])

\* 249-252: the first i with parent[i] == -1 (0: the loop found none).
RootIndex(parent) ==
    IF \E i \in DOMAIN parent : parent[i] = 0 - 1
    THEN SetMin({ i \in DOMAIN parent : parent[i] = 0 - 1 })
    ELSE 0

\* loadSkel_recur(node, idx, None, pred_joints, parent): the joints whose parent
\* is idx become the children of the node, each with its own subtree.  The
\* result is the set of bones <<parent, child>>.
RECURSIVE loadSkel_recur(_, _)
loadSkel_recur(idx, parent) ==
    UNION { {<<idx, k>>} \cup loadSkel_recur(k, parent) :
                k \in { k \in DOMAIN parent : parent[k] = idx } }

\* 234-256 for two joints or more.
predict_skeleton(in) ==
    LET n == Len(in.joints)
        cost == increase_cost_for_outside_bone(
                    cost_matrix(prob_matrix(n, in.connect_prob)), in.outside)
        parent == primMST_symmetry(cost, in.root_id, in.joints)
        i == RootIndex(parent)
    IN  [parent |-> parent,
         root |-> i,
         bones |-> IF i = 0 THEN {} ELSE loadSkel_recur(i, parent),
         err |-> IF i = 0 THEN "AttributeError" ELSE "none"]

PredictSkeleton ==
    /\ kpc = "input"
    /\ Len(skel_in.joints) >= 2
    /\ skel_out' = predict_skeleton(skel_in)
    /\ kpc' = IF skel_out'.err = "none" THEN "built" ELSE "failed"
    /\ UNCHANGED <<skel_in, exceptSkel>>

\* One joint: input_data.pairs is an empty one-dimensional array (199, 207) and
\* pair_idx[:, 0] at 242 raises IndexError; no skeleton is returned.
PredictSkeletonSingle ==
    /\ kpc = "input"
    /\ Len(skel_in.joints) = 1
    /\ skel_out' = [parent |-> <<>>, root |-> 0, bones |-> {}, err |-> "IndexError"]
    /\ kpc' = "failed"
    /\ UNCHANGED <<skel_in, exceptSkel>>

SkelNext == PredictSkeleton \/ PredictSkeletonSingle

SkelInputs ==
    UNION { [joints : {js},
             root_id : 1..Len(js),
             connect_prob : [Pairs(Len(js)) -> 1..MaxProb],
             outside : { o \in SUBSET Pairs(Len(js)) : Cardinality(o) <= MaxOutside }]
            : js \in SkelJoints }

InDegree(bones, j) == Cardinality({ b \in bones : b[2] = j })

RECURSIVE ReachFrom(_, _)
ReachFrom(seen, bones) ==
    LET next == seen \cup { b[2] : b \in { b \in bones : b[1] \in seen } }
    IN  IF next = seen THEN seen ELSE ReachFrom(next, bones)

\* C1: a built skeleton has exactly one joint without a parent, the root;
\* every other joint has exactly one parent; every joint is reachable from
\* the root.  Under the mirror rule as spec 4.4 step 4 words it this fails for
\* a root off the symmetry plane: the mirror of the root's child goes under
\* the mirror of the root before that mirror is reached, and the two can end
\* as each other's parent.
C1_SkeletonIsRootedTree ==
    kpc = "built" =>
        LET all == 1..Len(skel_in.joints)
            bones == skel_out.bones
        IN  /\ { j \in all : InDegree(bones, j) = 0 } = {skel_out.root}
            /\ \A j \in all \ {skel_out.root} : InDegree(bones, j) = 1
            /\ ReachFrom({skel_out.root}, bones) = all

\* The slots of a vertex that hold a bone of the skeleton (406-419).
RealSlots(nb) == { i \in Slots : i <= nb }

\* C12: after the scatter, the entry of the bone in every real slot is the
\* softmax weight of that slot, and a bone in no real slot has weight 0; the
\* padded slots change no bone's weight.
C12_ScatterKeepsRealSlots ==
    spc = "done" =>
        \A v \in SkinVerts :
            /\ \A i \in RealSlots(skin_in.nb) :
                   skin_out.scattered[v][skin_out.nn[v][i]] = skin_in.net[v][i]
            /\ \A b \in 1..skin_in.nb :
                   (\A i \in RealSlots(skin_in.nb) : skin_out.nn[v][i] # b) =>
                       skin_out.scattered[v][b] = WZero

(***************************************************************************)
(* predict_joints (rignetconnect.py 198-220): the joint pairs and their     *)
(* features, built from the joints the suppression and the flip left.  The  *)
(* bone sampler and the voxel oracle are collaborators: for every pair the  *)
(* oracle's answer for each sampled point is an input.                      *)
(***************************************************************************)
MaxPairJoints == 3

MaxSamples == 2

\* The oracle's answers for the points sample_on_bone returned: TRUE for a
\* point inside the voxelized mesh.
SampleAnswers == SeqsOf(BOOLEAN, 0, MaxSamples)

\* inside_check(pts, vox), first result: the points that are inside, as at 169
\* where they are the candidates that are kept.
inside_check(answers) ==
    FilterSeq(answers, answers)

\* The outside-mesh fraction of a bone: the sampled points the oracle puts
\* outside, over the sampled points.
OutsideFraction(answers) ==
    Frac(Cardinality({ i \in 1..Len(answers) : ~answers[i] }), Len(answers))

\* n / (d + 1e-10): 0 for d = 0; for d >= 1 the guard is below the float32
\* resolution the feature is stored at (210).
QuotGuarded(n, d) == IF d = 0 THEN FInt(0) ELSE Frac(n, d)

\* 202-206: attr = [dist, outside_proportion, 1]; the distance is kept as
\* its square.
PairAttr(joints, pr, answers) ==
    LET bone_samples_inside == inside_check(answers)
    IN  [dist_sq |-> SqDist(joints[pr[1]], joints[pr[2]]),
         outside_proportion |-> QuotGuarded(Len(bone_samples_inside), Len(answers)),
         one |-> 1]

\* 199-220: every unordered pair of joints with its features.
build_pairs(in) ==
    LET pairs == Pairs(Len(in.joints))
    IN  [pairs |-> pairs,
         pair_attr |-> [pr \in pairs |-> PairAttr(in.joints, pr, in.samples[pr])]]

BuildPairs ==
    /\ ppc = "input"
    /\ pair_out' = build_pairs(pair_in)
    /\ ppc' = "done"
    /\ UNCHANGED <<pair_in, exceptPair>>

PairNext == BuildPairs

PairInputs ==
    UNION { [joints : {js}, samples : [Pairs(Len(js)) -> SampleAnswers]]
            : js \in { js \in SkelJoints : Len(js) <= MaxPairJoints } }

\* C14: the second feature of every joint pair is the outside-mesh fraction of
\* its bone: 0 for a bone entirely inside the mesh, 1 for one entirely outside.
C14_SecondFeatureIsOutsideFraction ==
    ppc = "done" =>
        \A pr \in pair_out.pairs :
            Len(pair_in.samples[pr]) >= 1 =>
                FEq(pair_out.pair_attr[pr].outside_proportion,
                    OutsideFraction(pair_in.samples[pr]))

(***************************************************************************)
(* The order of the steps of predict_rig (489-504), read off the log.      *)
(***************************************************************************)
\* The positions in a run's log at which a step stands.
StepsAt(r, step) == { i \in 1..Len(log[r]) : log[r][i] = step }

\* The four stages of a run in the order they ran.
StagesRun(r) ==
    FilterSeq(log[r], [i \in 1..Len(log[r]) |->
                          log[r][i] \in {"create", "joints", "skeleton", "skinning"}])

\* C11: in a run of predict_rig that completes, the inverse normalization is
\* applied exactly once, after the skinning stage and never before it, and the
\* stages ran in the order data creation, joints, skeleton, skinning.
C11_InverseOnceAfterSkinning ==
    \A r \in Runs :
        rpc[r] = "done" =>
            /\ Cardinality(StepsAt(r, "denormalize")) = 1
            /\ \A i \in StepsAt(r, "denormalize") :
                   \E k \in StepsAt(r, "skinning") : k < i
            /\ StagesRun(r) = <<"create", "joints", "skeleton", "skinning">>

\* A run completed while the other run was between its stages.
C11_Witness ==
    \E r \in Runs :
        /\ rpc[r] = "done"
        /\ \E q \in Runs \ {r} : rpc[q] \in {"data", "joints", "skeleton"}

(***************************************************************************)
(* The specifications.                                                     *)
(***************************************************************************)
InitNorm ==
    /\ mesh_v \in SeqsOf(Vertices, 1, MaxVerts)
    /\ npc = "raw"
    /\ nres = <<>>
    /\ nback = <<>>
    /\ rpc = <<>> /\ MESH_NORMALIZED = 0 /\ mesh_cast = <<>> /\ files = {}
    /\ cache_cleared = <<>> /\ rerr = <<>> /\ tool = <<>> /\ log = <<>>
    /\ geo_in = <<>> /\ gpc = "off" /\ geo_out = <<>>
    /\ skin_in = <<>> /\ spc = "off" /\ skin_out = <<>>
    /\ joint_in = <<>> /\ jpc = "off" /\ joint_out = <<>>
    /\ skel_in = <<>> /\ kpc = "off" /\ skel_out = <<>>
    /\ pair_in = <<>> /\ ppc = "off" /\ pair_out = <<>>

SpecNorm == InitNorm /\ [][NormNext]_vars

Init ==
    /\ rpc = [r \in Runs |-> "start"]
    /\ MESH_NORMALIZED = 0
    /\ mesh_cast = [r \in Runs |-> 0]
    /\ files = {}
    /\ cache_cleared = [r \in Runs |-> FALSE]
    /\ rerr = [r \in Runs |-> "none"]
    /\ tool = [r \in Runs |-> "not_run"]
    /\ log = [r \in Runs |-> <<>>]
    /\ mesh_v = <<>> /\ npc = "off" /\ nres = <<>> /\ nback = <<>>
    /\ geo_in = <<>> /\ gpc = "off" /\ geo_out = <<>>
    /\ skin_in = <<>> /\ spc = "off" /\ skin_out = <<>>
    /\ joint_in = <<>> /\ jpc = "off" /\ joint_out = <<>>
    /\ skel_in = <<>> /\ kpc = "off" /\ skel_out = <<>>
    /\ pair_in = <<>> /\ ppc = "off" /\ pair_out = <<>>

Next == RigNext

Spec == Init /\ [][Next]_vars

InitGeo ==
    /\ geo_in \in GeoInputs
    /\ gpc = "input"
    /\ geo_out = <<>>
    /\ mesh_v = <<>> /\ npc = "off" /\ nres = <<>> /\ nback = <<>>
    /\ rpc = <<>> /\ MESH_NORMALIZED = 0 /\ mesh_cast = <<>> /\ files = {}
    /\ cache_cleared = <<>> /\ rerr = <<>> /\ tool = <<>> /\ log = <<>>
    /\ skin_in = <<>> /\ spc = "off" /\ skin_out = <<>>
    /\ joint_in = <<>> /\ jpc = "off" /\ joint_out = <<>>
    /\ skel_in = <<>> /\ kpc = "off" /\ skel_out = <<>>
    /\ pair_in = <<>> /\ ppc = "off" /\ pair_out = <<>>

SpecGeo == InitGeo /\ [][GeoNext]_vars

InitSkin ==
    /\ skin_in \in SkinInputs
    /\ spc = "input"
    /\ skin_out = <<>>
    /\ mesh_v = <<>> /\ npc = "off" /\ nres = <<>> /\ nback = <<>>
    /\ rpc = <<>> /\ MESH_NORMALIZED = 0 /\ mesh_cast = <<>> /\ files = {}
    /\ cache_cleared = <<>> /\ rerr = <<>> /\ tool = <<>> /\ log = <<>>
    /\ geo_in = <<>> /\ gpc = "off" /\ geo_out = <<>>
    /\ joint_in = <<>> /\ jpc = "off" /\ joint_out = <<>>
    /\ skel_in = <<>> /\ kpc = "off" /\ skel_out = <<>>
    /\ pair_in = <<>> /\ ppc = "off" /\ pair_out = <<>>

SpecSkin == InitSkin /\ [][SkinNext]_vars

InitJoint ==
    /\ joint_in \in [cand : SeqsOf(Candidates, 1, MaxCand),
                     bandwidth : 1..MaxBandwidth,
                     threshold : 0..MaxThreshold]
    /\ jpc = "input"
    /\ joint_out = <<>>
    /\ mesh_v = <<>> /\ npc = "off" /\ nres = <<>> /\ nback = <<>>
    /\ rpc = <<>> /\ MESH_NORMALIZED = 0 /\ mesh_cast = <<>> /\ files = {}
    /\ cache_cleared = <<>> /\ rerr = <<>> /\ tool = <<>> /\ log = <<>>
    /\ geo_in = <<>> /\ gpc = "off" /\ geo_out = <<>>
    /\ skin_in = <<>> /\ spc = "off" /\ skin_out = <<>>
    /\ skel_in = <<>> /\ kpc = "off" /\ skel_out = <<>>
    /\ pair_in = <<>> /\ ppc = "off" /\ pair_out = <<>>

SpecJoint == InitJoint /\ [][JointNext]_vars

InitSkel ==
    /\ skel_in \in SkelInputs
    /\ kpc = "input"
    /\ skel_out = <<>>
    /\ mesh_v = <<>> /\ npc = "off" /\ nres = <<>> /\ nback = <<>>
    /\ rpc = <<>> /\ MESH_NORMALIZED = 0 /\ mesh_cast = <<>> /\ files = {}
    /\ cache_cleared = <<>> /\ rerr = <<>> /\ tool = <<>> /\ log = <<>>
    /\ geo_in = <<>> /\ gpc = "off" /\ geo_out = <<>>
    /\ skin_in = <<>> /\ spc = "off" /\ skin_out = <<>>
    /\ joint_in = <<>> /\ jpc = "off" /\ joint_out = <<>>
    /\ pair_in = <<>> /\ ppc = "off" /\ pair_out = <<>>

SpecSkel == InitSkel /\ [][SkelNext]_vars

InitPair ==
    /\ pair_in \in PairInputs
    /\ ppc = "input"
    /\ pair_out = <<>>
    /\ mesh_v = <<>> /\ npc = "off" /\ nres = <<>> /\ nback = <<>>
    /\ rpc = <<>> /\ MESH_NORMALIZED = 0 /\ mesh_cast = <<>> /\ files = {}
    /\ cache_cleared = <<>> /\ rerr = <<>> /\ tool = <<>> /\ log = <<>>
    /\ geo_in = <<>> /\ gpc = "off" /\ geo_out = <<>>
    /\ skin_in = <<>> /\ spc = "off" /\ skin_out = <<>>
    /\ joint_in = <<>> /\ jpc = "off" /\ joint_out = <<>>
    /\ skel_in = <<>> /\ kpc = "off" /\ skel_out = <<>>

SpecPair == InitPair /\ [][PairNext]_vars

====
